---------------------------- MODULE Spec2Model ----------------------------
(***************************************************************************)
(* coderec: statistical detection of machine code in binary files.         *)
(*                                                                         *)
(* The module models                                                       *)
(*   - the decision heuristic  final_range_result        (src/main.rs),    *)
(*   - the window planner and parallel detector  detect_code, the planner  *)
(*     also on file lengths of 64 bits,                                    *)
(*   - the collector  DetectionResult::from  and the aggregator            *)
(*     ProcessedDetectionResult::from,                                     *)
(*   - the consolidator  CliJsonOutput::from             (src/output.rs),  *)
(*   - the n-gram statistics  CorpusStats::new  and  compute_kl            *)
(*     (src/corpus.rs), on byte sequences.                                 *)
(*                                                                         *)
(* Numbers.  The program computes in f64.  The model computes in exact     *)
(* rational arithmetic: a real x is stored as the integer x * den, where   *)
(* den is the denominator carried by the value's record.  A variance is    *)
(* stored with denominator den^2.  The f64 constants of the heuristic have *)
(* one decimal digit and are stored in tenths (5.0 is 50).  Rounding       *)
(* errors and NaN are outside the model.                                   *)
(*                                                                         *)
(* Option<T> is modelled as a sequence of length at most one:              *)
(*   None = << >>,  Some(x) = << x >>.                                     *)
(* A Range<usize> start..end is the record [start |-> s, end |-> e].       *)
(***************************************************************************)
EXTENDS Integers, Sequences, FiniteSets, TLC

VARIABLES
    pc,         \* position of the modelled program
    \* ---- final_range_result called on its own
    res_bg,     \* argument res_bg : RangeResult
    res_tg,     \* argument res_tg : RangeResult
    ret,        \* value returned for (res_bg, res_tg)
    lo_tg,      \* a second trigram argument that differs from res_tg in div only
    ret_lo,     \* value returned for (res_bg, lo_tg)
    \* ---- one invocation of main
    len,        \* file_data.len(); two limbs [hi, lo] for a big file
    corpus,     \* corpus_stats: the architecture names, in load order
    debug,      \* whether the log level Debug is enabled (-d)
    content,    \* what the bytes of each window look like (input)
    run,        \* number of the file of the command line being analysed
    window,     \* detect_code: the half-window
    results,    \* detect_code: the finished window tasks, by window start
    res_ex,     \* the DetectionResult
    processed,  \* the ProcessedDetectionResult
    output,     \* the CliJsonOutput
    first,      \* the ProcessedDetectionResult of the first file, sorted
    \* ---- CorpusStats::new and CorpusStats::compute_kl called on their own
    file_data,  \* the bytes of a window of the file
    base_count, \* argument base_count of the call for the window, in hundredths
    win_stats,  \* the CorpusStats built from (file_data, base_count)
    arch_data,  \* the bytes of a corpus entry
    arch_stats, \* the reference CorpusStats, built by load_corpus
    kl_ret      \* the Divergences returned by win_stats.compute_kl(&arch_stats)

heur_vars == <<res_bg, res_tg, ret, lo_tg, ret_lo>>
input_vars == <<len, corpus, debug, content>>
main_vars == <<run, window, results, res_ex, processed, output, first>>
stats_vars == <<file_data, base_count, win_stats, arch_data, arch_stats, kl_ret>>
vars == <<pc, heur_vars, input_vars, main_vars, stats_vars>>

\* The variables of main while another function is studied on its own.
MainIdle ==
    /\ len = 0 /\ corpus = << >> /\ debug = FALSE /\ content = << >>
    /\ run = 0 /\ window = "unset" /\ results = << >> /\ res_ex = "unset"
    /\ processed = "unset" /\ output = "unset" /\ first = "unset"

\* The variables of the heuristic's own calls while main runs.
HeurIdle ==
    /\ res_bg = "unset" /\ res_tg = "unset" /\ ret = "unset"
    /\ lo_tg = "unset" /\ ret_lo = "unset"

\* The variables of the statistics' own calls while another function runs.
StatsIdle ==
    /\ file_data = << >> /\ base_count = 0 /\ win_stats = "unset"
    /\ arch_data = << >> /\ arch_stats = "unset" /\ kl_ret = "unset"

None == << >>
Some(x) == << x >>

Min(a, b) == IF a <= b THEN a ELSE b

-----------------------------------------------------------------------------
(* Decision heuristic                                                      *)

\* Scale of the heuristic's f64 constants: they are stored in tenths.
Tenths == 10

\* Limits on the absolute divergence of the closest arch.
MAX_ABS_DIV_BG == 50
MAX_ABS_DIV_TG == 60
MAX_ABS_DIV_STRICT_BG == 40
MAX_ABS_DIV_STRICT_TG == 50

\* Threshold for instant detection via standard deviation.
INSTANT_STD_DEV_BG == 20
INSTANT_STD_DEV_TG == 20
INSTANT_STD_DEV_STRICT_BG == 25
INSTANT_STD_DEV_STRICT_TG == 25

\* Threshold for conditional detection via standard deviation.
COMM_STD_DEV_BG == 10
COMM_STD_DEV_TG == 10
COMM_STD_DEV_STRICT_BG == 15
COMM_STD_DEV_STRICT_TG == 15

\* The literal 1.0 of the text special case.
TEXT_STD_DEV_TG == 10

\* The strict list.  is_strict is imported from crate::corpus but its body
\* is not part of the available sources; the list is the one of the
\* specification (section 6), matched exactly.
StrictArchs ==
    { "OCaml", "PIC10", "PIC16", "PIC18", "PIC24", "6502", "#6502#cc65",
      "TI_MSP430", "IA-64", "Cell-SPU", "AVR", "FR-V", "M68k", "RL78",
      "HP-PA", "FR30", "ARC32eb", "Epiphany", "MIPS16", "Stormy16",
      "Visium", "M32C", "CLIPPER", "TMS320C2x", "TMS320C6x", "i860",
      "8051", "Cray", "MCore", "V850", "NDS32", "CompactRISC", "WE32000" }

is_strict(arch) == arch \in StrictArchs

\* arch.starts_with("_words").  Architecture names are opaque strings in the
\* model; the names of the model's universe that carry the prefix are listed.
WordsArchs == { "_words", "_words_ucs2" }

starts_with_words(arch) == arch \in WordsArchs

\* RangeResult: arch, div, range_mean, range_var.  div and range_mean are
\* numerators over den, range_var is a numerator over den^2.
RangeResult(arch, div, mean, var, den) ==
    [arch |-> arch, div |-> div, range_mean |-> mean, range_var |-> var,
     den |-> den]

\* Mutant: the limit test compares with Ordering::Less.
GreaterThanLimit_less(res, max_abs) == res.div * Tenths < max_abs * res.den

\* div.partial_cmp(&max_abs_div).unwrap() == Ordering::Greater
\* div/den > max_abs/Tenths
GreaterThanLimit(res, max_abs) == res.div * Tenths > max_abs * res.den

\* Mutant: the test accepts Ordering::Equal as well.
LessThanMeanMinus_or_equal(res, k) ==
    LET gap == res.range_mean - res.div
    IN  /\ gap >= 0
        /\ k * k * res.range_var <= (Tenths * gap) * (Tenths * gap)

\* div.partial_cmp(&(mean - k * std_deviation)).unwrap() == Ordering::Less
\* with std_deviation = range_var.sqrt() and k given in tenths:
\*   div < mean - k*sigma  <=>  k*sigma < mean - div
\*                         <=>  mean - div > 0 /\ k^2 * var < (mean - div)^2
\* (k*sigma >= 0).  With the numerators: gap = range_mean - div (over den),
\* range_var over den^2, k over Tenths.
LessThanMeanMinus(res, k) ==
    LET gap == res.range_mean - res.div
    IN  /\ gap > 0
        /\ k * k * res.range_var < (Tenths * gap) * (Tenths * gap)

\* The threshold triples (max_abs_div, instant_std_dev, comm_std_dev).
ThresholdsBg(arch_bg) ==
    IF is_strict(arch_bg)
    THEN <<MAX_ABS_DIV_STRICT_BG, INSTANT_STD_DEV_STRICT_BG, COMM_STD_DEV_STRICT_BG>>
    ELSE <<MAX_ABS_DIV_BG, INSTANT_STD_DEV_BG, COMM_STD_DEV_BG>>

\* Mutant: the trigram triple ignores strictness.
ThresholdsTg_nonstrict(arch_tg) ==
    <<MAX_ABS_DIV_TG, INSTANT_STD_DEV_TG, COMM_STD_DEV_TG>>

ThresholdsTg(arch_tg) ==
    IF is_strict(arch_tg)
    THEN <<MAX_ABS_DIV_STRICT_TG, INSTANT_STD_DEV_STRICT_TG, COMM_STD_DEV_STRICT_TG>>
    ELSE <<MAX_ABS_DIV_TG, INSTANT_STD_DEV_TG, COMM_STD_DEV_TG>>

\* Mutant: the instant bigram test comes before the instant trigram test.
final_range_result_bg_first(rbg, rtg) ==
    LET tbg == ThresholdsBg(rbg.arch)
        ttg == ThresholdsTg(rtg.arch)
    IN  IF /\ GreaterThanLimit(rbg, tbg[1])
           /\ GreaterThanLimit(rtg, ttg[1])
        THEN None
        ELSE IF LessThanMeanMinus(rbg, tbg[2])
        THEN Some(rbg.arch)
        ELSE IF LessThanMeanMinus(rtg, ttg[2])
        THEN Some(rtg.arch)
        ELSE IF /\ LessThanMeanMinus(rbg, tbg[3])
                /\ LessThanMeanMinus(rtg, ttg[3])
                /\ rtg.arch = rbg.arch
        THEN Some(rtg.arch)
        ELSE IF /\ LessThanMeanMinus(rtg, TEXT_STD_DEV_TG)
                /\ starts_with_words(rtg.arch)
        THEN Some(rtg.arch)
        ELSE None

\* Main heuristic that decides which arch is assigned to a range.
final_range_result(rbg, rtg) ==
    LET tbg == ThresholdsBg(rbg.arch)
        ttg == ThresholdsTg(rtg.arch)
        max_abs_div_bg == tbg[1]
        instant_std_dev_bg == tbg[2]
        comm_std_dev_bg == tbg[3]
        max_abs_div_tg == ttg[1]
        instant_std_dev_tg == ttg[2]
        comm_std_dev_tg == ttg[3]
    IN  IF /\ GreaterThanLimit(rbg, max_abs_div_bg)
           /\ GreaterThanLimit(rtg, max_abs_div_tg)
        THEN None
        ELSE IF LessThanMeanMinus(rtg, instant_std_dev_tg)
        THEN Some(rtg.arch)
        ELSE IF LessThanMeanMinus(rbg, instant_std_dev_bg)
        THEN Some(rbg.arch)
        ELSE IF /\ LessThanMeanMinus(rbg, comm_std_dev_bg)
                /\ LessThanMeanMinus(rtg, comm_std_dev_tg)
                /\ rtg.arch = rbg.arch
        THEN Some(rtg.arch)
        ELSE IF /\ LessThanMeanMinus(rtg, TEXT_STD_DEV_TG)
                /\ starts_with_words(rtg.arch)
        THEN Some(rtg.arch)
        ELSE None

-----------------------------------------------------------------------------
(* The heuristic on its own: SpecHeuristic                                 *)

\* Divergences offered to the heuristic: 0.0, 0.5, ..., MaxDivSteps * 0.5.
MaxDivSteps == 14

HeurArchs == { "X86", "AVR", "_words" }
HeurDivs == { 5 * k : k \in 0..MaxDivSteps }
HeurMeans == { 30, 60 }
\* Variances whose standard deviations are 0.0, 1.0 and 2.5.
HeurVars == { 0, 100, 625 }

HeurResults ==
    { RangeResult(a, d, m, v, Tenths) :
        a \in HeurArchs, d \in HeurDivs, m \in HeurMeans, v \in HeurVars }

InitHeuristic ==
    /\ pc = "heur_args"
    /\ res_bg \in HeurResults
    /\ res_tg \in HeurResults
    /\ ret = "unset"
    /\ lo_tg = "unset"
    /\ ret_lo = "unset"
    /\ MainIdle
    /\ StatsIdle

\* One call final_range_result(&res_bg, &res_tg).
CallFinalRangeResult ==
    /\ pc = "heur_args"
    /\ ret' = final_range_result(res_bg, res_tg)
    /\ pc' = "heur_returned"
    /\ UNCHANGED <<res_bg, res_tg, lo_tg, ret_lo, input_vars, stats_vars, main_vars>>

\* A second call whose trigram argument has a smaller div_tg and is
\* otherwise the same.
CallWithLowerDivTg ==
    /\ pc = "heur_returned"
    /\ \E d \in HeurDivs :
          /\ d < res_tg.div
          /\ lo_tg' = [res_tg EXCEPT !.div = d]
          /\ ret_lo' = final_range_result(res_bg, [res_tg EXCEPT !.div = d])
    /\ pc' = "heur_lowered"
    /\ UNCHANGED <<res_bg, res_tg, ret, input_vars, stats_vars, main_vars>>

NextHeuristic == CallFinalRangeResult \/ CallWithLowerDivTg

SpecHeuristic == InitHeuristic /\ [][NextHeuristic]_vars

-----------------------------------------------------------------------------
(* Claims about the heuristic                                              *)

\* The standard deviation of a variance that is a perfect square (all of
\* HeurVars are), in tenths.
SigmaOf(res) == CHOOSE s \in 0..res.range_var : s * s = res.range_var

\* div < mean - k * sigma, stated with sigma itself (div, mean and sigma in tenths, k in tenths).
StatedBelow(res, k) == 10 * res.div < 10 * res.range_mean - k * SigmaOf(res)

\* The stated triples (MAX_ABS, INSTANT, COMM), in tenths.
StatedTripleBg(arch) == IF is_strict(arch) THEN <<40, 25, 15>> ELSE <<50, 20, 10>>
StatedTripleTg(arch) == IF is_strict(arch) THEN <<50, 25, 15>> ELSE <<60, 20, 10>>

\* The six stated rules as <<applies, outcome>>, in their stated order.
StatedRules(rbg, rtg) ==
    LET b == StatedTripleBg(rbg.arch)
        t == StatedTripleTg(rtg.arch)
    IN  << <<rbg.div > b[1] /\ rtg.div > t[1], None>>,
           <<StatedBelow(rtg, t[2]), Some(rtg.arch)>>,
           <<StatedBelow(rbg, b[2]), Some(rbg.arch)>>,
           <<StatedBelow(rbg, b[3]) /\ StatedBelow(rtg, t[3]) /\ rbg.arch = rtg.arch,
             Some(rtg.arch)>>,
           <<StatedBelow(rtg, 10) /\ rtg.arch \in WordsArchs, Some(rtg.arch)>>,
           <<TRUE, None>> >>

\* The outcome of the first rule, among those numbered in `among`, that applies.
FirstApplicable(rules, among) ==
    LET i == CHOOSE j \in among :
                 /\ rules[j][1]
                 /\ \A h \in among : h < j => ~rules[h][1]
    IN  rules[i][2]

\* The number of the first rule that applies.
FiringRule(rbg, rtg) ==
    LET rules == StatedRules(rbg, rtg)
    IN  CHOOSE j \in 1..6 : rules[j][1] /\ \A h \in 1..(j - 1) : ~rules[h][1]

\* C1: final_range_result returns exactly the outcome of the six-rule
\* cascade, evaluated in order with the first applicable rule winning, each
\* order's threshold triple chosen by that order's own winner.
C1_Cascade ==
    pc \in {"heur_returned", "heur_lowered"} =>
        ret = FirstApplicable(StatedRules(res_bg, res_tg), 1..6)

\* C1 witness: the call returned through rule 3 (instant bigram) although a
\* later rule would have given another label, with one strict and one
\* non-strict winner.
C1_Witness ==
    /\ pc = "heur_returned"
    /\ FiringRule(res_bg, res_tg) = 3
    /\ is_strict(res_bg.arch) /\ ~is_strict(res_tg.arch)
    /\ StatedRules(res_bg, res_tg)[5][1]
    /\ ret = Some(res_bg.arch)

\* C8: heuristic monotonicity.  Of two calls that differ only in div_tg, if
\* the one with the larger div_tg returns a label, the one with the smaller
\* div_tg returns a label too.
C8_Monotone ==
    pc = "heur_lowered" =>
        /\ lo_tg = [res_tg EXCEPT !.div = lo_tg.div]
        /\ lo_tg.div < res_tg.div
        /\ (ret # None => ret_lo # None)

\* C8 witness: the larger div_tg was labelled by the bigram rule, the smaller
\* one is labelled with the trigram winner instead.
C8_Witness ==
    /\ pc = "heur_lowered"
    /\ ret = Some(res_bg.arch)
    /\ ret_lo = Some(res_tg.arch)
    /\ res_bg.arch # res_tg.arch

\* div_tg = mean_tg - 2.2 * sigma_tg with sigma_tg > 0.
StrictTie(rtg) ==
    /\ SigmaOf(rtg) > 0
    /\ 10 * rtg.div = 10 * rtg.range_mean - 22 * SigmaOf(rtg)

\* C9: strict tie-break.  With div_tg = mean_tg - 2.2 sigma_tg, sigma_tg > 0:
\* for a strict arch_tg rule 2 does not assign, the result is the one of the
\* cascade without rule 2 (None, or a label of rule 3, 4 or 5); for a
\* non-strict arch_tg, unless rule 1 fires, rule 2 assigns arch_tg.
C9_StrictTieBreak ==
    (pc = "heur_returned" /\ StrictTie(res_tg)) =>
        LET rules == StatedRules(res_bg, res_tg)
        IN  /\ is_strict(res_tg.arch) =>
                /\ FiringRule(res_bg, res_tg) # 2
                /\ ret = FirstApplicable(rules, {1, 3, 4, 5, 6})
            /\ (~is_strict(res_tg.arch) /\ ~rules[1][1]) =>
                /\ FiringRule(res_bg, res_tg) = 2
                /\ ret = Some(res_tg.arch)

\* C9 witness: a strict trigram winner at the tie that no rule labels, where
\* the bigram order does not help.
C9_Witness ==
    /\ pc = "heur_returned"
    /\ StrictTie(res_tg)
    /\ is_strict(res_tg.arch)
    /\ ~GreaterThanLimit(res_bg, MAX_ABS_DIV_BG)
    /\ ret = None

-----------------------------------------------------------------------------
(* detect_code: the window planner                                         *)

\* (l as f64).log2() as usize: the floor of the binary logarithm.  (f64 is
\* exact here for every l the model can hold, l < 2^31.)
RECURSIVE log2_floor(_)
log2_floor(l) == IF l < 2 THEN 0 ELSE 1 + log2_floor(l \div 2)

\* x & 0xFFFFF000: the mask keeps bits 12..31, so for x < 2^32 it clears the
\* low twelve bits.
and_FFFFF000(x) == x - (x % \H1000)

\* Mutant: the two smallest tiers meet one byte too late (0..=0x1001).
window_of_len_late_edge(l) ==
    IF l >= \H100001 /\ l <= \H1000000 THEN \H1000
    ELSE IF l >= \H20001 /\ l <= \H100000 THEN \H800
    ELSE IF l >= \H8001 /\ l <= \H20000 THEN \H400
    ELSE IF l >= \H1002 /\ l <= \H8000 THEN \H200
    ELSE IF l >= 0 /\ l <= \H1001 THEN \H100
    ELSE and_FFFFF000(l \div (170 * log2_floor(l)))

\* let window = match file_data.len() { ... }: the arms in source order.
window_of_len(l) ==
    IF l >= \H100001 /\ l <= \H1000000 THEN \H1000
    ELSE IF l >= \H20001 /\ l <= \H100000 THEN \H800
    ELSE IF l >= \H8001 /\ l <= \H20000 THEN \H400
    ELSE IF l >= \H1001 /\ l <= \H8000 THEN \H200
    ELSE IF l >= 0 /\ l <= \H1000 THEN \H100
    ELSE and_FFFFF000(l \div (170 * log2_floor(l)))

\* Mutant: the iterator advances by the full window.
RECURSIVE StepBy_full(_, _, _)
StepBy_full(start, l, w) ==
    IF start >= l THEN {} ELSE {start} \cup StepBy_full(start + w * 2, l, w)

\* StepBy::next over start..l: the first element, then every w-th after it.
RECURSIVE StepBy(_, _, _)
StepBy(start, l, w) ==
    IF start >= l THEN {} ELSE {start} \cup StepBy(start + w, l, w)

\* (0..file_data.len()).step_by(window)
Starts(l, w) == StepBy(0, l, w)

\* Mutant: the window spans three half-windows.
WindowRange_wide(l, w, start) == [start |-> start, end |-> Min(l, start + w * 3)]

\* Mutant: the window ends one half-window after its start.
WindowRange_half(l, w, start) == [start |-> start, end |-> Min(l, start + w)]

\* start..end with end = min(file_data.len(), start + window * 2)
WindowRange(l, w, start) == [start |-> start, end |-> Min(l, start + w * 2)]

\* Range::len()
RangeLen(r) == IF r.end >= r.start THEN r.end - r.start ELSE 0

\* The first step of detect_code: the half-window is chosen from the length.
ChooseWindow ==
    /\ pc = "detect_code"
    /\ window' = window_of_len(len)
    /\ pc' = "windows"
    /\ UNCHANGED <<heur_vars, input_vars, stats_vars, run, results, res_ex, processed,
                   output, first>>

-----------------------------------------------------------------------------
(* The window planner on its own: SpecWindow                               *)

\* File lengths are taken up to MaxEdgeDelta bytes around each tier edge.
MaxEdgeDelta == 5

\* 0, the five tier edges, and lengths of the big-file formula up to the
\* largest the model's integers hold.
LengthEdges ==
    { 0, \H1000, \H8000, \H20000, \H100000, \H1000000,
      \H1FFFFF0, \H2000000, \H4000000, \H10000000, \H40000000, \H7FFFFF00 }

WindowLens ==
    { e + d : e \in LengthEdges, d \in (0 - MaxEdgeDelta)..MaxEdgeDelta } \cap Nat

InitWindow ==
    /\ pc = "detect_code"
    /\ len \in WindowLens
    /\ corpus = << >> /\ debug = FALSE /\ content = << >>
    /\ run = 1 /\ window = "unset" /\ results = << >> /\ res_ex = "unset"
    /\ processed = "unset" /\ output = "unset" /\ first = "unset"
    /\ HeurIdle
    /\ StatsIdle

SpecWindow == InitWindow /\ [][ChooseWindow]_vars

\* floor(log2 L), stated by its bounds.
StatedLog2(l) == CHOOSE k \in 0..30 : 2^k <= l /\ (k = 30 \/ l < 2^(k + 1))

\* x AND 0xFFFFF000 for x < 2^32: the multiple of 0x1000 at or next below x.
StatedMask(x) ==
    CHOOSE m \in { \H1000 * q : q \in 0..(x \div \H1000) } : m <= x /\ x < m + \H1000

\* The stated table, by ascending length.
StatedHalfWindow(l) ==
    CASE l >= 0 /\ l <= \H1000 -> \H100
      [] l >= \H1001 /\ l <= \H8000 -> \H200
      [] l >= \H8001 /\ l <= \H20000 -> \H400
      [] l >= \H20001 /\ l <= \H100000 -> \H800
      [] l >= \H100001 /\ l <= \H1000000 -> \H1000
      [] l > \H1000000 -> StatedMask(l \div (170 * StatedLog2(l)))

\* C4: the half-window chosen for a file of length L is the one of the
\* stated table, and of the stated formula above 0x1000000.
C4_HalfWindowTable ==
    pc = "windows" => window = StatedHalfWindow(len)

\* C4 witness: a length of the formula range whose quotient is not a
\* multiple of 0x1000, so that the mask changes it.
C4_Witness ==
    /\ pc = "windows"
    /\ len > \H1000000
    /\ (len \div (170 * StatedLog2(len))) % \H1000 # 0
    /\ window = \H2000

-----------------------------------------------------------------------------
(* detect_code: the per-window tasks                                       *)

\* Sum of a sequence of integers.
RECURSIVE SeqSum(_)
SeqSum(q) == IF q = << >> THEN 0 ELSE Head(q) + SeqSum(Tail(q))

\* Insert x into the sorted sequence q, after the elements that are not
\* greater.
RECURSIVE InsertByDiv(_, _)
InsertByDiv(x, q) ==
    IF q = << >> THEN << x >>
    ELSE IF x.div < Head(q).div THEN << x >> \o q
    ELSE << Head(q) >> \o InsertByDiv(x, Tail(q))

\* sort_unstable_by(|a, b| a.div.partial_cmp(&b.div).unwrap()): ascending by
\* divergence.  The library's order of equal elements is a fixed function of
\* the input order; the model keeps the input order among them.
RECURSIVE SortByDiv(_)
SortByDiv(q) ==
    IF q = << >> THEN << >>
    ELSE InsertByDiv(q[Len(q)], SortByDiv(SubSeq(q, 1, Len(q) - 1)))

\* What a window of the file looks like.  The bytes themselves are not
\* modelled; a window's content is one of
\*   <<"short", 0, 0>>  fewer than three bytes: no n-gram at all,
\*   <<"flat", 0, 0>>   equally far from every reference,
\*   <<"match", i, j>>  bigrams closest to corpus entry i, trigrams to j,
\*   <<"far", 1, 1>>    closest to the first corpus entry, but far from all.
Contents(n) ==
    {<<"flat", 0, 0>>, <<"far", 1, 1>>}
        \cup { <<"match", i, i>> : i \in 1..n }
        \cup { <<"match", i, (i % n) + 1>> : i \in 1..n }

\* target.compute_kl(arch_stats) for the window content c and corpus entry
\* i, in tenths.  A target without n-grams (fewer than three bytes) iterates
\* nothing and yields 0.0 twice; the other values stand for the sums over
\* the window's n-grams.
compute_kl(c, i) ==
    CASE c[1] = "short" -> [bigrams |-> 0, trigrams |-> 0]
      [] c[1] = "flat"  -> [bigrams |-> 30, trigrams |-> 35]
      [] c[1] = "match" -> [bigrams  |-> IF i = c[2] THEN 10 ELSE 40,
                            trigrams |-> IF i = c[3] THEN 15 ELSE 45]
      [] c[1] = "far"   -> [bigrams  |-> IF i = c[2] THEN 55 ELSE 70,
                            trigrams |-> IF i = c[3] THEN 65 ELSE 80]

\* CorpusStats::new("target", &file_data[start..end], 0.0), as far as
\* compute_kl reads it: data.windows(3) is empty for fewer than three bytes.
WinStats(range) ==
    IF RangeLen(range) < 3 THEN <<"short", 0, 0>> ELSE content[range.start]

KlRes(arch, div) == [arch |-> arch, div |-> div]

\* calculate_kl(corpus_stats, &win_stats) -> RangeFullKlRes
calculate_kl(corpus_stats, target) ==
    [kl_bg |-> SortByDiv([i \in 1..Len(corpus_stats) |->
                             KlRes(corpus_stats[i], compute_kl(target, i).bigrams)]),
     kl_tg |-> SortByDiv([i \in 1..Len(corpus_stats) |->
                             KlRes(corpus_stats[i], compute_kl(target, i).trigrams)])]

\* debug!("Results 2-gram: {:?}", &kl_bg[0..2]): the slice is taken only
\* when the Debug level is enabled, and panics for fewer than two entries.
DebugSlicePanics == debug /\ Len(corpus) < 2

\* One task of the parallel map: the closure of detect_code for one start.
\* The tasks share nothing but the corpus, which they only read; they
\* finish in any order.
WindowTask(start) ==
    /\ pc = "windows"
    /\ start \in Starts(len, window) \ DOMAIN results
    /\ ~DebugSlicePanics
    /\ LET range == WindowRange(len, window, start)
       IN  results' = [s \in DOMAIN results \cup {start} |->
                         IF s = start
                         THEN [range |-> range,
                               kl |-> calculate_kl(corpus, WinStats(range))]
                         ELSE results[s]]
    /\ UNCHANGED <<pc, heur_vars, input_vars, stats_vars, run, window, res_ex, processed,
                   output, first>>

\* A task panics in calculate_kl; the panic ends the program.
WindowTaskPanic(start) ==
    /\ pc = "windows"
    /\ start \in Starts(len, window) \ DOMAIN results
    /\ DebugSlicePanics
    /\ pc' = "panic: calculate_kl kl_bg[0..2]"
    /\ UNCHANGED <<heur_vars, input_vars, stats_vars, main_vars>>

-----------------------------------------------------------------------------
(* DetectionResult::from: the collector                                    *)

\* Mutant: the collected vector is in descending order of the starts.
RECURSIVE AscendingSeq_descending(_)
AscendingSeq_descending(S) ==
    IF S = {} THEN << >>
    ELSE LET m == CHOOSE x \in S : \A y \in S : x >= y
         IN  << m >> \o AscendingSeq_descending(S \ {m})

\* The keys of a sequence of window results, ascending: i.collect() keeps
\* the order of the parallel iterator, which is the order of the starts.
RECURSIVE AscendingSeq(_)
AscendingSeq(S) ==
    IF S = {} THEN << >>
    ELSE LET m == CHOOSE x \in S : \A y \in S : x <= y
         IN  << m >> \o AscendingSeq(S \ {m})

\* map.entry(k).and_modify(|e| e.push(v)).or_insert(vec![v])
Push(map, k, v) ==
    IF k \in DOMAIN map
    THEN [map EXCEPT ![k] = Append(@, v)]
    ELSE [x \in DOMAIN map \cup {k} |-> IF x = k THEN << v >> ELSE map[x]]

\* Mutant: the trigram entries are filed under the bigram entry's
\* architecture.
CollectPair_bg_arch(acc, range, kl_bg_arch, kl_tg_arch) ==
    [kl_bg_arch_to_range |->
        Push(acc.kl_bg_arch_to_range, kl_bg_arch.arch, [range |-> range, div |-> kl_bg_arch.div]),
     kl_tg_arch_to_range |->
        Push(acc.kl_tg_arch_to_range, kl_bg_arch.arch, [range |-> range, div |-> kl_tg_arch.div]),
     kl_bg_range_to_arch |->
        Push(acc.kl_bg_range_to_arch, range, [arch |-> kl_bg_arch.arch, div |-> kl_bg_arch.div]),
     kl_tg_range_to_arch |->
        Push(acc.kl_tg_range_to_arch, range, [arch |-> kl_tg_arch.arch, div |-> kl_tg_arch.div])]

\* The body of the inner loop for one zipped pair (kl_bg_arch, kl_tg_arch).
CollectPair(acc, range, kl_bg_arch, kl_tg_arch) ==
    [kl_bg_arch_to_range |->
        Push(acc.kl_bg_arch_to_range, kl_bg_arch.arch, [range |-> range, div |-> kl_bg_arch.div]),
     kl_tg_arch_to_range |->
        Push(acc.kl_tg_arch_to_range, kl_tg_arch.arch, [range |-> range, div |-> kl_tg_arch.div]),
     kl_bg_range_to_arch |->
        Push(acc.kl_bg_range_to_arch, range, [arch |-> kl_bg_arch.arch, div |-> kl_bg_arch.div]),
     kl_tg_range_to_arch |->
        Push(acc.kl_tg_range_to_arch, range, [arch |-> kl_tg_arch.arch, div |-> kl_tg_arch.div])]

\* for (kl_bg_arch, kl_tg_arch) in kl_bg.into_iter().zip(kl_tg.into_iter())
RECURSIVE CollectWindow(_, _, _, _)
CollectWindow(acc, range, kl, i) ==
    IF i > Min(Len(kl.kl_bg), Len(kl.kl_tg)) THEN acc
    ELSE CollectWindow(CollectPair(acc, range, kl.kl_bg[i], kl.kl_tg[i]),
                       range, kl, i + 1)

\* for (range, RangeFullKlRes { kl_bg, kl_tg }) in res
RECURSIVE CollectAll(_, _)
CollectAll(acc, res) ==
    IF res = << >> THEN acc
    ELSE CollectAll(CollectWindow(acc, Head(res).range, Head(res).kl, 1), Tail(res))

EmptyDetectionResult ==
    [kl_bg_arch_to_range |-> << >>, kl_tg_arch_to_range |-> << >>,
     kl_bg_range_to_arch |-> << >>, kl_tg_range_to_arch |-> << >>]

\* impl From<I> for DetectionResult, once every task has finished.
DetectionResultFrom(done) ==
    LET order == AscendingSeq(DOMAIN done)
        res == [i \in 1..Len(order) |-> done[order[i]]]
    IN  CollectAll(EmptyDetectionResult, res)

\* detect_code returns: all tasks are done and their results collected.
Collect ==
    /\ pc = "windows"
    /\ DOMAIN results = Starts(len, window)
    /\ res_ex' = DetectionResultFrom(results)
    /\ pc' = "detected"
    /\ UNCHANGED <<heur_vars, input_vars, stats_vars, run, window, results, processed,
                   output, first>>

-----------------------------------------------------------------------------
(* ProcessedDetectionResult::from: the aggregator                          *)

\* The architecture names of the model in ascending byte order, the key
\* order of BTreeMap<Arch, _>.
NameOrder == << "ARMhf", "AVR", "X86", "_words", "_words_ucs2" >>

\* The keys of a BTreeMap in iteration order.
BTreeKeys(map) == SelectSeq(NameOrder, LAMBDA a : a \in DOMAIN map)

\* The smallest divergence reported as min_kl: 0.1, in tenths.
MIN_KL_FLOOR == 1

\* map.values().flat_map(|arch| arch.iter().map(|(_, div)| *div)).collect()
RECURSIVE FlatDivs(_, _)
FlatDivs(map, keys) ==
    IF keys = << >> THEN << >>
    ELSE [i \in 1..Len(map[Head(keys)]) |-> [div |-> map[Head(keys)][i].div]]
             \o FlatDivs(map, Tail(keys))

\* all_divs.sort_unstable_by(..)
AllDivs(map) == SortByDiv(FlatDivs(map, BTreeKeys(map)))

\* Mutant: find takes the first element, whatever its value.
NotBelowFloor_any(all_divs) == all_divs

\* all_divs.iter().find(|div| div.partial_cmp(&0.1).unwrap() != Less):
\* the elements not below the floor, in the vector's order.
NotBelowFloor(all_divs) == SelectSeq(all_divs, LAMBDA e : e.div >= MIN_KL_FLOOR)

\* data.iter().sum::<f64>() / (data.len() as f64), as a numerator over
\* Tenths * data.len() (the data are in tenths).
calculate_mean(data) == SeqSum(data)

\* data.iter().map(|x| f64::powi(x - mean, 2)).sum::<f64>() / data.len(),
\* as a numerator over (Tenths * data.len())^2.  x - mean has the numerator
\* data.len() * x - mean; the sum of the squares is a multiple of data.len().
calculate_variance(data, mean) ==
    SeqSum([i \in 1..Len(data) |->
               (Len(data) * data[i] - mean) * (Len(data) * data[i] - mean)])
        \div Len(data)

\* Mutant: the winner is the last element of the sorted list.
RangeResultOf_last(arches) ==
    LET sorted == SortByDiv(arches)
        divs == [i \in 1..Len(sorted) |-> sorted[i].div]
        mean == calculate_mean(divs)
    IN  RangeResult(sorted[Len(sorted)].arch, sorted[Len(sorted)].div * Len(sorted),
                    mean, calculate_variance(divs, mean), Tenths * Len(sorted))

\* Per-range min (with arch), mean, and variance: the closure of the map
\* over kl_*_range_to_arch.
RangeResultOf(arches) ==
    LET sorted == SortByDiv(arches)
        divs == [i \in 1..Len(sorted) |-> sorted[i].div]
        mean == calculate_mean(divs)
        var == calculate_variance(divs, mean)
    IN  RangeResult(sorted[1].arch, sorted[1].div * Len(sorted), mean, var,
                    Tenths * Len(sorted))

\* The sequences that list every element of S once: the orders in which a
\* HashMap with the key set S can be iterated.
IterationOrders(S) ==
    { q \in [1..Cardinality(S) -> S] : \A i, j \in DOMAIN q : q[i] = q[j] => i = j }

\* The body of the constructor but for the two places that read a hash
\* map's iteration order.
Aggregate(ex) ==
    LET keys == BTreeKeys(ex.kl_bg_arch_to_range)
        all_divs_bg == AllDivs(ex.kl_bg_arch_to_range)
        all_divs_tg == AllDivs(ex.kl_tg_arch_to_range)
        range_to_result_bg ==
            [r \in DOMAIN ex.kl_bg_range_to_arch |->
                RangeResultOf(ex.kl_bg_range_to_arch[r])]
        range_to_result_tg ==
            [r \in DOMAIN ex.kl_tg_range_to_arch |->
                RangeResultOf(ex.kl_tg_range_to_arch[r])]
    IN  [win_sz |-> "unset",
         arch_to_idx |-> [a \in DOMAIN ex.kl_bg_arch_to_range |->
                             (CHOOSE i \in 1..Len(keys) : keys[i] = a) - 1],
         idx_to_arch |-> [i \in 0..(Len(keys) - 1) |-> keys[i + 1]],
         max_kl_bg |-> all_divs_bg[Len(all_divs_bg)].div,
         min_kl_bg |-> Head(NotBelowFloor(all_divs_bg)).div,
         max_kl_tg |-> all_divs_tg[Len(all_divs_tg)].div,
         min_kl_tg |-> Head(NotBelowFloor(all_divs_tg)).div,
         range_to_result_bg |-> range_to_result_bg,
         range_to_result_tg |-> range_to_result_tg,
         kl_arch_to_range_bg |-> ex.kl_bg_arch_to_range,
         kl_arch_to_range_tg |-> ex.kl_tg_arch_to_range,
         range_to_final_result |->
            [r \in DOMAIN range_to_result_bg |->
                final_range_result(range_to_result_bg[r], range_to_result_tg[r])],
         arch_to_final_ranges |-> "unset"]

\* Mutant: the first range of an architecture inserts an empty vector.
ArchToFinalRanges_empty_insert(range_to_final_result, order) ==
    LET winners == { range_to_final_result[r][1] :
                        r \in { x \in DOMAIN range_to_final_result :
                                    range_to_final_result[x] # None } }
    IN  [a \in winners |->
            Tail(SelectSeq(order, LAMBDA r : range_to_final_result[r] = Some(a)))]

\* for (range, arch_op) in range_to_final_result.iter(), visiting the
\* entries in the given order.
ArchToFinalRanges(range_to_final_result, order) ==
    LET winners == { range_to_final_result[r][1] :
                        r \in { x \in DOMAIN range_to_final_result :
                                    range_to_final_result[x] # None } }
    IN  [a \in winners |->
            SelectSeq(order, LAMBDA r : range_to_final_result[r] = Some(a))]

\* res_ex.kl_bg_range_to_arch.keys().next().unwrap().len()
WinSzOf(first_key) == RangeLen(first_key)

\* The constructor.  first_key is the key that
\* kl_bg_range_to_arch.keys().next() yields and order the order in which
\* range_to_final_result.iter() yields its entries; both depend on the
\* maps' hashers.
ProcessedFrom(agg, first_key, order) ==
    [agg EXCEPT !.win_sz = WinSzOf(first_key),
                !.arch_to_final_ranges =
                    ArchToFinalRanges(agg.range_to_final_result, order)]

\* keys().next().unwrap() finds no range.
NoRangeKey == DOMAIN res_ex.kl_bg_range_to_arch = {}

\* find(..).unwrap() finds no divergence at or above the floor.
NoMinKlBg == NotBelowFloor(AllDivs(res_ex.kl_bg_arch_to_range)) = << >>
NoMinKlTg == NotBelowFloor(AllDivs(res_ex.kl_tg_arch_to_range)) = << >>

\* let processes_res: ProcessedDetectionResult = raw_res.into();
Process ==
    /\ pc = "detected"
    /\ ~NoRangeKey /\ ~NoMinKlBg /\ ~NoMinKlTg
    /\ LET agg == Aggregate(res_ex)
       IN  \E first_key \in DOMAIN res_ex.kl_bg_range_to_arch :
           \E order \in IterationOrders(DOMAIN res_ex.kl_bg_range_to_arch) :
              processed' = ProcessedFrom(agg, first_key, order)
    /\ pc' = "processed"
    /\ UNCHANGED <<heur_vars, input_vars, stats_vars, run, window, results, res_ex,
                   output, first>>

\* Where the constructor panics on an unwrap of None, in source order.
ProcessPanicAt ==
    IF NoRangeKey THEN "panic: win_sz keys().next().unwrap()"
    ELSE IF NoMinKlBg THEN "panic: min_kl_bg find(..).unwrap()"
    ELSE "panic: min_kl_tg find(..).unwrap()"

ProcessPanics == IF NoRangeKey THEN TRUE ELSE IF NoMinKlBg THEN TRUE ELSE NoMinKlTg

\* The constructor panics; the panic ends the program.
ProcessPanic ==
    /\ pc = "detected"
    /\ ProcessPanics
    /\ pc' = ProcessPanicAt
    /\ UNCHANGED <<heur_vars, input_vars, stats_vars, main_vars>>

-----------------------------------------------------------------------------
(* CliJsonOutput::from: the consolidator                                   *)

\* Insert e into the sequence q sorted by range start.
\* Mutant: the comparator is reversed (range_b.start.cmp(&range_a.start)).
RECURSIVE InsertByStart_descending(_, _)
InsertByStart_descending(e, q) ==
    IF q = << >> THEN << e >>
    ELSE IF e.range.start > Head(q).range.start THEN << e >> \o q
    ELSE << Head(q) >> \o InsertByStart_descending(e, Tail(q))

RECURSIVE InsertByStart(_, _)
InsertByStart(e, q) ==
    IF q = << >> THEN << e >>
    ELSE IF e.range.start < Head(q).range.start THEN << e >> \o q
    ELSE << Head(q) >> \o InsertByStart(e, Tail(q))

\* res.range_to_final_result.iter().collect() followed by
\* sort_unstable_by(|(a, _), (b, _)| a.start.cmp(&b.start)); the starts of
\* the keys are distinct, so the iteration order does not show.
RECURSIVE SortedByStart(_)
SortedByStart(map) ==
    IF DOMAIN map = {} THEN << >>
    ELSE LET r == CHOOSE x \in DOMAIN map : TRUE
             rest == [x \in DOMAIN map \ {r} |-> map[x]]
         IN  InsertByStart([range |-> r, arch_op |-> map[r]], SortedByStart(rest))

\* Mutant: a new run begins at every element.
RECURSIVE ChunkBy_single(_)
ChunkBy_single(q) ==
    IF q = << >> THEN << >>
    ELSE << [key |-> Head(q).arch_op, items |-> << Head(q) >>] >>
             \o ChunkBy_single(Tail(q))

\* Itertools::chunk_by(|(_, arch_op)| arch_op.clone()): consecutive elements
\* with equal keys form one group.
RECURSIVE ChunkBy(_)
ChunkBy(q) ==
    IF q = << >> THEN << >>
    ELSE LET rest == ChunkBy(Tail(q))
         IN  IF rest # << >> /\ Head(rest).key = Head(q).arch_op
             THEN << [key |-> Head(rest).key,
                      items |-> << Head(q) >> \o Head(rest).items] >> \o Tail(rest)
             ELSE << [key |-> Head(q).arch_op, items |-> << Head(q) >>] >> \o rest

\* The closure of filter_map for one run: Some((fused range, length, arch))
\* for a labelled run, None for an unlabelled one.
RunEntry(chunk) ==
    LET first_range == chunk.items[1].range
        last_range == IF Len(chunk.items) > 1
                      THEN chunk.items[Len(chunk.items)].range
                      ELSE first_range
    IN  IF chunk.key = None THEN None
        ELSE Some(<< [start |-> first_range.start, end |-> last_range.end],
                     last_range.end - first_range.start,
                     chunk.key[1] >>)

\* filter_map(..).collect()
RECURSIVE FilterMapRuns(_)
FilterMapRuns(chunks) ==
    IF chunks = << >> THEN << >>
    ELSE RunEntry(Head(chunks)) \o FilterMapRuns(Tail(chunks))

CliJsonOutputFrom(file, res) ==
    [file |-> file,
     range_results |-> FilterMapRuns(ChunkBy(SortedByStart(res.range_to_final_result)))]

\* serde_json::to_writer(.., &CliJsonOutput::from((file, &processes_res)))
Output ==
    /\ pc = "processed"
    /\ output' = CliJsonOutputFrom("file", processed)
    /\ pc' = "printed"
    /\ UNCHANGED <<heur_vars, input_vars, stats_vars, run, window, results, res_ex,
                   processed, first>>

-----------------------------------------------------------------------------
(* main: the loop over the files of the command line                       *)

\* Insert r into the sequence q of ranges sorted by start.
RECURSIVE InsertRange(_, _)
InsertRange(r, q) ==
    IF q = << >> THEN << r >>
    ELSE IF r.start < Head(q).start THEN << r >> \o q
    ELSE << Head(q) >> \o InsertRange(r, Tail(q))

RECURSIVE SortRanges(_)
SortRanges(q) ==
    IF q = << >> THEN << >> ELSE InsertRange(Head(q), SortRanges(Tail(q)))

\* A ProcessedDetectionResult with its collections in canonical order: the
\* maps are functions already, the vectors filled in a hash map's iteration
\* order are sorted by start.
Canonical(res) ==
    [res EXCEPT !.arch_to_final_ranges =
        [a \in DOMAIN res.arch_to_final_ranges |->
            SortRanges(res.arch_to_final_ranges[a])]]

\* The command line names the same file twice: after the first file's output
\* the loop analyses it again, with the same corpus.
NextFile ==
    /\ pc = "printed"
    /\ run = 1
    /\ run' = 2
    /\ first' = Canonical(processed)
    /\ window' = "unset"
    /\ results' = << >>
    /\ res_ex' = "unset"
    /\ processed' = "unset"
    /\ output' = "unset"
    /\ pc' = "detect_code"
    /\ UNCHANGED <<heur_vars, input_vars, stats_vars>>

-----------------------------------------------------------------------------
(* One invocation of main: Spec                                            *)

\* The corpus holds at most MaxArchs entries.
MaxArchs == 3
\* Files of up to MaxTinyLen bytes, of up to MaxLenSteps * 128 bytes in
\* steps of 128 bytes (half of the smallest half-window), and of up to
\* MaxTinyLen bytes more than the smallest half-window.
MaxTinyLen == 3
MaxLenSteps == 5

\* The corpus entries in load order.  The Debug level is an input only for
\* a corpus of fewer than two entries; for a larger one it changes nothing
\* but the log.
ArchPool == << "X86", "_words", "AVR", "ARMhf", "_words_ucs2" >>

FileLens ==
    (0..MaxTinyLen) \cup { 128 * k : k \in 1..MaxLenSteps }
        \cup { 256 + k : k \in 1..MaxTinyLen }

Init ==
    /\ pc = "detect_code"
    /\ len \in FileLens
    /\ \E n \in 0..MaxArchs :
          /\ corpus = SubSeq(ArchPool, 1, n)
          /\ content \in [Starts(len, window_of_len(len)) ->
                             IF n = 0 THEN {<<"flat", 0, 0>>} ELSE Contents(n)]
    /\ \A s \in DOMAIN content :
          RangeLen(WindowRange(len, window_of_len(len), s)) < 3
              => content[s] = <<"flat", 0, 0>>
    /\ debug \in (IF Len(corpus) < 2 THEN BOOLEAN ELSE {FALSE})
    /\ run = 1
    /\ window = "unset"
    /\ results = << >>
    /\ res_ex = "unset"
    /\ processed = "unset"
    /\ output = "unset"
    /\ first = "unset"
    /\ HeurIdle
    /\ StatsIdle

Next ==
    \/ ChooseWindow
    \/ \E start \in Starts(len, window_of_len(len)) : WindowTask(start)
    \/ \E start \in Starts(len, window_of_len(len)) : WindowTaskPanic(start)
    \/ Collect
    \/ Process
    \/ ProcessPanic
    \/ Output
    \/ NextFile

Spec == Init /\ [][Next]_vars

-----------------------------------------------------------------------------
(* The consolidator on its own: SpecOutput                                 *)

\* The consolidator is given the ranges of files of up to
\* MaxOutputSteps * 128 bytes, labelled in every way with two architectures.
MaxOutputSteps == 10

OutputLens == { 128 * k : k \in 1..MaxOutputSteps }
OutputLabels == { None, Some("X86"), Some("AVR") }

RangesOf(l) == { WindowRange(l, window_of_len(l), s) : s \in Starts(l, window_of_len(l)) }

InitOutput ==
    /\ pc = "processed"
    /\ len \in OutputLens
    /\ processed \in { [range_to_final_result |-> f] :
                          f \in [RangesOf(len) -> OutputLabels] }
    /\ corpus = << >> /\ debug = FALSE /\ content = << >>
    /\ run = 1 /\ window = "unset" /\ results = << >> /\ res_ex = "unset"
    /\ output = "unset" /\ first = "unset"
    /\ HeurIdle
    /\ StatsIdle

SpecOutput == InitOutput /\ [][Output]_vars

-----------------------------------------------------------------------------
(* Claims about the consolidator                                           *)

\* The key of f with exactly i keys starting at or before it.
NthByStart(f, i) ==
    CHOOSE r \in DOMAIN f :
        Cardinality({ x \in DOMAIN f : x.start <= r.start }) = i

\* The maximal runs <<i, j>> of positions (by ascending start) that carry
\* the same label, the label being present.
LabelledRuns(f) ==
    LET n == Cardinality(DOMAIN f)
        lab(i) == f[NthByStart(f, i)]
    IN  { ij \in (1..n) \X (1..n) :
            /\ ij[1] <= ij[2]
            /\ lab(ij[1]) # None
            /\ \A k \in ij[1]..ij[2] : lab(k) = lab(ij[1])
            /\ ij[1] = 1 \/ lab(ij[1] - 1) # lab(ij[1])
            /\ ij[2] = n \/ lab(ij[2] + 1) # lab(ij[2]) }

\* C2: the consolidated output is exactly the sequence of the maximal runs
\* of consecutive ranges (by ascending start) with the same present label:
\* one entry (first.start..last.end, last.end - first.start, arch) per run,
\* in ascending start order, and nothing for a run labelled None.
C2_MaximalRuns ==
    pc = "printed" =>
        LET f == processed.range_to_final_result
            runs == LabelledRuns(f)
            out == output.range_results
        IN  /\ Len(out) = Cardinality(runs)
            /\ \A ij \in runs :
                  LET k == Cardinality({ x \in runs : x[1] <= ij[1] })
                      fst == NthByStart(f, ij[1])
                      lst == NthByStart(f, ij[2])
                  IN  out[k] = << [start |-> fst.start, end |-> lst.end],
                                  lst.end - fst.start,
                                  f[fst][1] >>
            /\ \A k \in 1..(Len(out) - 1) : out[k][1].start < out[k + 1][1].start

\* C2 witness: a run of two ranges is fused, a run labelled None is left
\* out, and a second entry follows it.
C2_Witness ==
    /\ pc = "printed"
    /\ Len(output.range_results) = 2
    /\ output.range_results[1] = << [start |-> 0, end |-> 768], 768, "X86" >>
    /\ output.range_results[2][3] = "AVR"
    /\ \E r \in DOMAIN processed.range_to_final_result :
          /\ processed.range_to_final_result[r] = None
          /\ r.start > 256
          /\ r.start < output.range_results[2][1].start

-----------------------------------------------------------------------------
(* Claims about one invocation of main                                     *)

\* The aggregator has panicked.
ProcessPanicked ==
    pc \in { "panic: win_sz keys().next().unwrap()",
             "panic: min_kl_bg find(..).unwrap()",
             "panic: min_kl_tg find(..).unwrap()" }

Panicked == pc = "panic: calculate_kl kl_bg[0..2]" \/ ProcessPanicked

\* detect_code has returned.
Detected == pc \in { "detected", "processed", "printed" } \/ ProcessPanicked

\* The ranges of the windows detect_code has processed.
ProcessedRanges == { results[s].range : s \in DOMAIN results }

\* The number of windows: the ceiling of len / window.
WindowCount == (len + window - 1) \div window

\* C3: for a file of length L and half-window w, detect_code processes
\* exactly the windows with the starts 0, w, 2w, ... below L, ceil(L/w) of
\* them, each being [start, min(L, start + 2w)), and the union of the
\* windows is [0, L).
C3_Windows ==
    Detected =>
        /\ ProcessedRanges =
              { [start |-> k * window, end |-> Min(len, k * window + 2 * window)] :
                   k \in 0..(WindowCount - 1) }
        /\ Cardinality(DOMAIN results) = WindowCount
        /\ UNION { r.start..(r.end - 1) : r \in ProcessedRanges } = 0..(len - 1)

\* C3 witness: a file of 0x280 bytes has been cut into three windows, the
\* last two of them cut off at the end of the file.
C3_Witness ==
    /\ pc = "detected"
    /\ len = 640
    /\ ProcessedRanges = { [start |-> 0, end |-> 512], [start |-> 256, end |-> 640],
                           [start |-> 512, end |-> 640] }

\* The range with the largest start.
FinalRange(ranges) == CHOOSE r \in ranges : \A x \in ranges : x.start <= r.start

\* C10 as stated: all ranges of one analysis have the same length, except
\* possibly the single final range.
C10_UniformButFinal ==
    (Detected /\ ProcessedRanges # {}) =>
        \A r1, r2 \in ProcessedRanges \ {FinalRange(ProcessedRanges)} :
            RangeLen(r1) = RangeLen(r2)

\* C10 amended: every range has the length of the full window, 2w, except
\* possibly the ranges with the two largest starts, which may be shorter.
C10_UniformButLastTwo ==
    (Detected /\ ProcessedRanges # {}) =>
        LET final == FinalRange(ProcessedRanges)
            others == ProcessedRanges \ {final}
        IN  /\ \A r \in ProcessedRanges : RangeLen(r) <= 2 * window
            /\ \A r \in others :
                  (others # {} /\ r # FinalRange(others)) => RangeLen(r) = 2 * window
            /\ \A r \in ProcessedRanges : r.end < len => RangeLen(r) = 2 * window

\* C10 witness: three ranges, the last two shorter than the first and of
\* different lengths.
C10_Witness ==
    /\ pc = "detected"
    /\ Cardinality(ProcessedRanges) = 3
    /\ \E r1, r2, r3 \in ProcessedRanges :
          /\ r1.start < r2.start /\ r2.start < r3.start
          /\ RangeLen(r1) = 2 * window
          /\ RangeLen(r2) < RangeLen(r1)
          /\ RangeLen(r3) < RangeLen(r2)

\* C5 as stated, for a file of two bytes and a corpus that is not empty
\* (the Debug level off): the pipeline completes without error, with a
\* single range labelled None and no range_results.
C5_TwoByteFile ==
    (len = 2 /\ corpus # << >> /\ ~debug) =>
        /\ ~Panicked
        /\ pc = "printed" =>
              /\ Cardinality(DOMAIN processed.range_to_final_result) = 1
              /\ \A r \in DOMAIN processed.range_to_final_result :
                    processed.range_to_final_result[r] = None
              /\ output.range_results = << >>

\* C6 as stated: with an empty corpus the detector and the aggregator
\* return a result, in which every range is labelled None.
C6_EmptyCorpus ==
    (corpus = << >> /\ ~debug) =>
        /\ ~Panicked
        /\ pc = "processed" =>
              \A r \in DOMAIN processed.range_to_final_result :
                  processed.range_to_final_result[r] = None

\* C7 as stated: the second analysis of the same file with the same corpus
\* yields the same ProcessedDetectionResult as the first, after canonical
\* sorting, whatever the hash maps' iteration orders and the schedule.
C7_Deterministic ==
    (run = 2 /\ pc = "processed") => Canonical(processed) = first

\* The number of bytes two ranges share.
Overlap(r1, r2) ==
    Cardinality((r1.start..(r1.end - 1)) \cap (r2.start..(r2.end - 1)))

\* C11: two consecutive windows (starts k*w and (k+1)*w) share exactly w
\* bytes, unless the second of them is the final window.
C11_Overlap ==
    Detected =>
        \A r1, r2 \in ProcessedRanges :
            (r2.start = r1.start + window /\ r2 # FinalRange(ProcessedRanges))
                => Overlap(r1, r2) = window

\* C11 witness: three windows; the first two share w bytes, the last two
\* fewer, the last one being cut off at the end of the file.
C11_Witness ==
    /\ pc = "detected"
    /\ \E r1, r2, r3 \in ProcessedRanges :
          /\ r2.start = r1.start + window /\ r3.start = r2.start + window
          /\ r3 = FinalRange(ProcessedRanges)
          /\ Overlap(r1, r2) = window
          /\ Overlap(r2, r3) < window

-----------------------------------------------------------------------------
(* CorpusStats::new and CorpusStats::compute_kl                            *)
(*                                                                         *)
(* Counts are stored in hundredths (1.0 is 100, the corpus' base count     *)
(* 0.01 is 1).  The f64 quotient a / b is stored unevaluated, as the       *)
(* record [num |-> a, den |-> b]; 0.0 / 0.0, which is NaN, is the record   *)
(* with num = 0 and den = 0.                                               *)

Hundred == 100

\* The base count load_corpus passes to CorpusStats::new: 0.01.
CORPUS_BASE_COUNT == 1

\* map.entry(k).and_modify(|count| *count += 1.0).or_insert(1.0 + base_count)
Count(map, k, b) ==
    IF k \in DOMAIN map
    THEN [map EXCEPT ![k] = @ + Hundred]
    ELSE [x \in DOMAIN map \cup {k} |-> IF x = k THEN Hundred + b ELSE map[x]]

\* Mutant: the loop visits every byte, with the n-grams cut off at the end
\* of the data left out.
RECURSIVE CountWindows_every_byte(_, _, _, _)
CountWindows_every_byte(counts, bytes, b, i) ==
    IF i > Len(bytes) THEN counts
    ELSE CountWindows_every_byte(
             [ug |-> Count(counts.ug, bytes[i], b),
              bg |-> IF i + 1 <= Len(bytes)
                     THEN Count(counts.bg, << bytes[i], bytes[i + 1] >>, b)
                     ELSE counts.bg,
              tg |-> IF i + 2 <= Len(bytes)
                     THEN Count(counts.tg, << bytes[i], bytes[i + 1], bytes[i + 2] >>, b)
                     ELSE counts.tg],
             bytes, b, i + 1)

\* for w in data.windows(3) { .. }: the windows start at the positions
\* i = 1 .. len - 2 (none for fewer than three bytes).
RECURSIVE CountWindows(_, _, _, _)
CountWindows(counts, bytes, b, i) ==
    IF i + 2 > Len(bytes) THEN counts
    ELSE CountWindows(
             [ug |-> Count(counts.ug, bytes[i], b),
              bg |-> Count(counts.bg, << bytes[i], bytes[i + 1] >>, b),
              tg |-> Count(counts.tg, << bytes[i], bytes[i + 1], bytes[i + 2] >>, b)],
             bytes, b, i + 1)

\* counts.values().sum::<f64>()
RECURSIVE ValuesSum(_)
ValuesSum(map) ==
    IF DOMAIN map = {} THEN 0
    ELSE LET k == CHOOSE x \in DOMAIN map : TRUE
         IN  map[k] + ValuesSum([x \in DOMAIN map \ {k} |-> map[x]])

\* (base_count * ((u32::pow(256, k) - counts.len() as u32) as f64))
\*     + counts.values().sum::<f64>()
Qtotal(counts, b, k) == b * (256^k - Cardinality(DOMAIN counts)) + ValuesSum(counts)

\* counts.into_iter().map(|(k, v)| (k, (v / qtotal))).collect()
Freqs(counts, qtotal) == [g \in DOMAIN counts |-> [num |-> counts[g], den |-> qtotal]]

\* CorpusStats::new(arch, data, base_count)
CorpusStatsNew(arch, bytes, b) ==
    LET counts == CountWindows([ug |-> << >>, bg |-> << >>, tg |-> << >>], bytes, b, 1)
        ug_qtotal == Qtotal(counts.ug, b, 1)
        bi_qtotal == Qtotal(counts.bg, b, 2)
        tri_qtotal == Qtotal(counts.tg, b, 3)
    IN  [arch |-> arch,
         ungrams_freq |-> Freqs(counts.ug, ug_qtotal),
         bigrams_freq |-> Freqs(counts.bg, bi_qtotal),
         trigrams_freq |-> Freqs(counts.tg, tri_qtotal),
         ug_base_freq |-> [num |-> b, den |-> ug_qtotal],
         bg_base_freq |-> [num |-> b, den |-> bi_qtotal],
         tg_base_freq |-> [num |-> b, den |-> tri_qtotal]]

\* *f != 0.0 for a stored quotient (NaN differs from 0.0 as well).
NonZero(f) == ~(f.num = 0 /\ f.den # 0)

\* Mutant: the reference's base frequency is used for every n-gram.
KldTerms_base_only(self_freq, q_freq, q_base_freq) ==
    [g \in { x \in DOMAIN self_freq : NonZero(self_freq[x]) } |->
        [f |-> self_freq[g], q |-> q_base_freq]]

\* One loop of compute_kl:
\*   for (g, f) in &self.freq { if *f != 0.0 {
\*       kld += f * (f / q.freq.get(g).unwrap_or(&q.base_freq)).ln() } }
\* The sum is kept as its terms: the n-grams that contribute, each with the
\* f and the divisor of its term f * ln(f / divisor).  No term is 0.0.
KldTerms(self_freq, q_freq, q_base_freq) ==
    [g \in { x \in DOMAIN self_freq : NonZero(self_freq[x]) } |->
        [f |-> self_freq[g],
         q |-> IF g \in DOMAIN q_freq THEN q_freq[g] ELSE q_base_freq]]

\* self.compute_kl(q) -> Divergences, on CorpusStats built from bytes.
CorpusStats_compute_kl(self, q_ref) ==
    [bigrams  |-> KldTerms(self.bigrams_freq, q_ref.bigrams_freq, q_ref.bg_base_freq),
     trigrams |-> KldTerms(self.trigrams_freq, q_ref.trigrams_freq, q_ref.tg_base_freq)]

\* let win_stats = CorpusStats::new("target".to_string(), data, base_count)
NewWinStats ==
    /\ pc = "stats_new"
    /\ win_stats' = CorpusStatsNew("target", file_data, base_count)
    /\ pc' = "stats_built"
    /\ UNCHANGED <<heur_vars, input_vars, main_vars, file_data, base_count,
                   arch_data, arch_stats, kl_ret>>

\* load_corpus: CorpusStats::new(arch.to_owned(), data, 0.01)
LoadCorpus ==
    /\ pc = "stats_built"
    /\ arch_stats' = CorpusStatsNew("X86", arch_data, CORPUS_BASE_COUNT)
    /\ pc' = "stats_loaded"
    /\ UNCHANGED <<heur_vars, input_vars, main_vars, file_data, base_count,
                   win_stats, arch_data, kl_ret>>

\* let r = target.compute_kl(arch_stats)
ComputeKl ==
    /\ pc = "stats_loaded"
    /\ kl_ret' = CorpusStats_compute_kl(win_stats, arch_stats)
    /\ pc' = "stats_compared"
    /\ UNCHANGED <<heur_vars, input_vars, main_vars, file_data, base_count,
                   win_stats, arch_data, arch_stats>>

-----------------------------------------------------------------------------
(* The statistics on their own: SpecStats                                  *)

\* The window holds up to MaxDataLen bytes, the corpus entry up to MaxRefLen.
MaxDataLen == 5
MaxRefLen == 4

\* The byte values of the model.
Bytes == { 0, 255 }

\* The base counts of the model: 0.0 (the windows of a file), 0.01 (the
\* corpus) and 0.5.
BaseCounts == { 0, CORPUS_BASE_COUNT, 50 }

ByteSeqs(n) == UNION { [1..m -> Bytes] : m \in 0..n }

InitStats ==
    /\ pc = "stats_new"
    /\ file_data \in ByteSeqs(MaxDataLen)
    /\ base_count \in BaseCounts
    /\ arch_data \in ByteSeqs(MaxRefLen)
    /\ win_stats = "unset" /\ arch_stats = "unset" /\ kl_ret = "unset"
    /\ MainIdle
    /\ HeurIdle

NextStats == NewWinStats \/ LoadCorpus \/ ComputeKl

SpecStats == InitStats /\ [][NextStats]_vars

-----------------------------------------------------------------------------
(* Claims about the statistics                                             *)

\* CorpusStats::new has returned the statistics of the window.
StatsBuilt == pc \in { "stats_built", "stats_loaded", "stats_compared" }

\* base_freq * (256^k - observed) + the sum of the stored frequencies is 1.
\* The quotients of one order share their divisor; a sum of quotients with
\* the divisor 0 is NaN or infinite, and not 1.
SumsToOne(freqs, base_freq, k) ==
    /\ base_freq.den # 0
    /\ \A g \in DOMAIN freqs : freqs[g].den = base_freq.den
    /\ base_freq.num * (256^k - Cardinality(DOMAIN freqs))
           + ValuesSum([g \in DOMAIN freqs |-> freqs[g].num])
         = base_freq.den

\* C12 as stated: for the statistics built from any bytes (fewer than three
\* included) with any base count b >= 0 (0 included), and each order k,
\* base_freq_k * (256^k - observed_k) + the sum of the frequencies is 1.
C12_Conservation ==
    StatsBuilt =>
        /\ SumsToOne(win_stats.ungrams_freq, win_stats.ug_base_freq, 1)
        /\ SumsToOne(win_stats.bigrams_freq, win_stats.bg_base_freq, 2)
        /\ SumsToOne(win_stats.trigrams_freq, win_stats.tg_base_freq, 3)

-----------------------------------------------------------------------------
(* Claims about the aggregator                                             *)

\* The divergences of one order ("kl_bg" or "kl_tg") over all pairs of a
\* range and an architecture, as the window tasks returned them.
DivsOf(order) ==
    UNION { { results[s].kl[order][i].div : i \in 1..Len(results[s].kl[order]) } :
              s \in DOMAIN results }

\* max_kl is the largest divergence and min_kl the smallest one that is not
\* below 0.1, if there is one.
MinMaxOf(divs, min_kl, max_kl) ==
    /\ max_kl \in divs /\ \A d \in divs : d <= max_kl
    /\ (\E d \in divs : d >= 1) =>
          /\ min_kl \in divs /\ min_kl >= 1
          /\ \A d \in divs : d >= 1 => min_kl <= d
          /\ min_kl <= max_kl

\* C13: for each order, max_kl is the largest divergence over all pairs of
\* a range and an architecture, and min_kl is the smallest divergence that
\* is at least 0.1 (given there is one), so that min_kl <= max_kl.
C13_MinMaxKl ==
    pc = "processed" =>
        /\ MinMaxOf(DivsOf("kl_bg"), processed.min_kl_bg, processed.max_kl_bg)
        /\ MinMaxOf(DivsOf("kl_tg"), processed.min_kl_tg, processed.max_kl_tg)

\* C13 witness: a window of fewer than three bytes has the divergence 0.0
\* from every architecture; min_kl is a larger divergence, below max_kl.
C13_Witness ==
    /\ pc = "processed"
    /\ 0 \in DivsOf("kl_bg")
    /\ processed.min_kl_bg >= 1
    /\ processed.min_kl_bg < processed.max_kl_bg

\* The n-grams of order k that start a length-3 window of the bytes.
BigramsIn(bytes) == { << bytes[i], bytes[i + 1] >> : i \in 1..(Len(bytes) - 2) }
TrigramsIn(bytes) ==
    { << bytes[i], bytes[i + 1], bytes[i + 2] >> : i \in 1..(Len(bytes) - 2) }

\* The terms of one order's sum are those of exactly the n-grams of the
\* target, each with the target's frequency and, as divisor, the
\* reference's frequency of the n-gram or else its base frequency.
StatedTerms(terms, t_grams, t_freq, r_grams, r_freq, r_base_freq) ==
    /\ DOMAIN terms = t_grams
    /\ \A g \in t_grams :
          /\ terms[g].f = t_freq[g]
          /\ g \in r_grams => terms[g].q = r_freq[g]
          /\ g \notin r_grams => terms[g].q = r_base_freq
    /\ \A g \in r_grams \ t_grams : g \notin DOMAIN terms
    /\ t_grams = {} => terms = << >>

\* C14: compute_kl(T, R) sums, for each order k in {2, 3}, the terms
\* T.freq(g) * ln(T.freq(g) / q(g)) over exactly the n-grams g of T, q(g)
\* being R's frequency of g if R has g and R's base frequency otherwise;
\* n-grams of R alone add nothing, and a target without n-grams gives the
\* empty sum, 0.0, for both orders.
C14_ComputeKl ==
    pc = "stats_compared" =>
        /\ StatedTerms(kl_ret.bigrams, BigramsIn(file_data), win_stats.bigrams_freq,
                       BigramsIn(arch_data), arch_stats.bigrams_freq,
                       arch_stats.bg_base_freq)
        /\ StatedTerms(kl_ret.trigrams, TrigramsIn(file_data), win_stats.trigrams_freq,
                       TrigramsIn(arch_data), arch_stats.trigrams_freq,
                       arch_stats.tg_base_freq)

\* C14 witness: the target has a bigram the reference has too, one the
\* reference lacks, and the reference has one the target lacks.
C14_Witness ==
    /\ pc = "stats_compared"
    /\ BigramsIn(file_data) \cap BigramsIn(arch_data) # {}
    /\ BigramsIn(file_data) \ BigramsIn(arch_data) # {}
    /\ BigramsIn(arch_data) \ BigramsIn(file_data) # {}
    /\ \E g \in DOMAIN kl_ret.bigrams : kl_ret.bigrams[g].q = arch_stats.bg_base_freq
    /\ \E g \in DOMAIN kl_ret.bigrams : kl_ret.bigrams[g].q # arch_stats.bg_base_freq

\* The number of length-3 windows of the bytes: max(0, len - 2).
WindowsOf(bytes) == IF Len(bytes) < 3 THEN 0 ELSE Len(bytes) - 2

\* The number of length-3 windows of the bytes that begin with the n-gram g
\* of order k (a unigram being a byte).
Occurrences(bytes, g, k) ==
    Cardinality({ i \in 1..WindowsOf(bytes) :
                    CASE k = 1 -> bytes[i] = g
                      [] k = 2 -> << bytes[i], bytes[i + 1] >> = g
                      [] k = 3 -> << bytes[i], bytes[i + 1], bytes[i + 2] >> = g })

\* The map holds the n-grams that begin a window, each with the count
\* m + b for its m occurrences.
StatedCounts(freqs, grams, bytes, b, k) ==
    /\ DOMAIN freqs = { g \in grams : Occurrences(bytes, g, k) >= 1 }
    /\ \A g \in DOMAIN freqs : freqs[g].num = 100 * Occurrences(bytes, g, k) + b

\* C18: CorpusStats::new visits the max(0, len - 2) length-3 windows of the
\* data and counts, for each window (x, y, z), the unigram x, the bigram
\* (x, y) and the trigram (x, y, z): an n-gram seen m >= 1 times has the
\* count m + b, the last two bytes are never counted as unigrams, and data
\* of fewer than three bytes gives three empty maps.
C18_Counting ==
    StatsBuilt =>
        /\ StatedCounts(win_stats.ungrams_freq, Bytes, file_data, base_count, 1)
        /\ StatedCounts(win_stats.bigrams_freq, Bytes \X Bytes, file_data, base_count, 2)
        /\ StatedCounts(win_stats.trigrams_freq, Bytes \X Bytes \X Bytes,
                        file_data, base_count, 3)
        /\ ValuesSum([g \in DOMAIN win_stats.ungrams_freq |->
                         win_stats.ungrams_freq[g].num - base_count])
             = 100 * WindowsOf(file_data)
        /\ Len(file_data) < 3 =>
              /\ win_stats.ungrams_freq = << >>
              /\ win_stats.bigrams_freq = << >>
              /\ win_stats.trigrams_freq = << >>

\* C18 witness: a byte that occurs among the last two bytes only is in no
\* map, and a unigram has been seen three times, with a base count.
C18_Witness ==
    /\ pc = "stats_built"
    /\ Len(file_data) = 5
    /\ file_data[5] \notin DOMAIN win_stats.ungrams_freq
    /\ base_count = 1
    /\ win_stats.ungrams_freq[file_data[1]].num = 301

-----------------------------------------------------------------------------
(* Claims about the detector and the collector                             *)

\* What one window task returns for the window with the given start, on
\* its own.
TaskResult(start) ==
    LET range == [start |-> start, end |-> Min(len, start + 2 * window)]
    IN  [range |-> range, kl |-> calculate_kl(corpus, WinStats(range))]

\* The DetectionResult of processing the windows one after the other, by
\* ascending start.
SequentialResult ==
    CollectAll(EmptyDetectionResult,
               [k \in 1..WindowCount |-> TaskResult((k - 1) * window)])

\* C15: the DetectionResult built from the parallel map is the one of
\* processing the windows one after the other by ascending start, in
\* whatever order the window tasks finish; and a window task leaves the
\* corpus and the results of the other tasks as they are, its own result
\* being the one it computes on its own.
C15_ScheduleIndependent ==
    [][/\ pc' = "detected" => res_ex' = SequentialResult
       /\ (pc = "windows" /\ pc' = "windows") =>
             /\ corpus' = corpus
             /\ \A s \in DOMAIN results :
                   s \in DOMAIN results' /\ results'[s] = results[s]
             /\ \A s \in DOMAIN results' \ DOMAIN results :
                   results'[s] = TaskResult(s)]_vars

\* C15 witness: of three window tasks the last two have finished and the
\* first has not.
C15_Witness ==
    /\ pc = "windows"
    /\ Len(corpus) >= 2
    /\ Cardinality(Starts(len, window)) = 3
    /\ DOMAIN results = Starts(len, window) \ {0}

-----------------------------------------------------------------------------
(* Claims about the per-range results                                      *)

\* The RangeResult res describes the divergences of the entries kl (one per
\* architecture, in tenths): it names an architecture with the least
\* divergence, div is that divergence, range_mean the arithmetic mean and
\* range_var the population variance, sum((d - mean)^2) / N.  With S the
\* sum of the N divergences, N * d - S is N * (d - mean).
Describes(res, entries) ==
    LET N == Len(entries)
        S == SeqSum([i \in 1..N |-> entries[i].div])
        SqSum == SeqSum([i \in 1..N |-> (N * entries[i].div - S) * (N * entries[i].div - S)])
    IN  /\ \E i \in 1..N :
              /\ entries[i].arch = res.arch
              /\ \A j \in 1..N : entries[i].div <= entries[j].div
              /\ res.div * 10 = entries[i].div * res.den
        /\ res.range_mean * 10 * N = S * res.den
        /\ res.range_var * 100 * N * N * N = SqSum * res.den * res.den

\* C16: for every range and each order, the RangeResult names an
\* architecture whose divergence is the least of all architectures in the
\* range, holds that divergence as div, and holds the arithmetic mean and
\* the population variance (divisor N) of the divergences of all N
\* architectures in the range.
C16_RangeResult ==
    pc = "processed" =>
        \A s \in DOMAIN results :
            /\ Describes(processed.range_to_result_bg[results[s].range],
                         results[s].kl.kl_bg)
            /\ Describes(processed.range_to_result_tg[results[s].range],
                         results[s].kl.kl_tg)

\* C16 witness: a range in which three architectures differ in their
\* bigram divergence, so that the variance is not 0.
C16_Witness ==
    /\ pc = "processed"
    /\ Len(corpus) = 3
    /\ \E r \in DOMAIN processed.range_to_result_bg :
          /\ processed.range_to_result_bg[r].range_var > 0
          /\ processed.range_to_result_bg[r].div < processed.range_to_result_bg[r].range_mean

\* C17: arch_to_final_ranges is the inverse of range_to_final_result.  A
\* range r is in the list of a exactly if range_to_final_result[r] is
\* Some(a); it is then there once, and in no other list; a range labelled
\* None is in no list; no list is empty.
C17_Inverse ==
    pc = "processed" =>
        LET f == processed.range_to_final_result
            g == processed.arch_to_final_ranges
            At(a, r) == { i \in 1..Len(g[a]) : g[a][i] = r }
        IN  /\ \A a \in DOMAIN g : g[a] # << >>
            /\ \A a \in DOMAIN g : \A i \in 1..Len(g[a]) :
                  g[a][i] \in DOMAIN f /\ f[g[a][i]] = Some(a)
            /\ \A r \in DOMAIN f :
                  IF f[r] = None
                  THEN \A a \in DOMAIN g : At(a, r) = {}
                  ELSE /\ f[r][1] \in DOMAIN g
                       /\ Cardinality(At(f[r][1], r)) = 1
                       /\ \A a \in DOMAIN g \ {f[r][1]} : At(a, r) = {}

\* C17 witness: two architectures have a range each and a third range is
\* labelled None.
C17_Witness ==
    /\ pc = "processed"
    /\ Cardinality(DOMAIN processed.arch_to_final_ranges) = 2
    /\ \E r \in DOMAIN processed.range_to_final_result :
          processed.range_to_final_result[r] = None

-----------------------------------------------------------------------------
(* Claims about the heuristic on equal divergences                         *)

\* The RangeResult of a range in which every architecture has the same
\* divergence: the variance is 0 and the winner's divergence is the mean.
AllEqual(res) == res.range_var = 0 /\ res.div = res.range_mean

\* C19: if in a range all architectures have the same bigram divergence
\* and the same trigram divergence, final_range_result gives None, whatever
\* the winners' names.
C19_EqualDivergences ==
    (pc \in { "heur_returned", "heur_lowered" } /\ AllEqual(res_bg) /\ AllEqual(res_tg))
        => ret = None

\* C19 witness: equal divergences below the limits, a "_words" winner of
\* the trigrams and another winner of the bigrams; the result is None.
C19_Witness ==
    /\ pc = "heur_returned"
    /\ AllEqual(res_bg) /\ AllEqual(res_tg)
    /\ res_bg.div = 30 /\ res_tg.div = 30
    /\ res_bg.arch = "X86" /\ res_tg.arch = "_words"
    /\ ret = None

-----------------------------------------------------------------------------
(* Claims about the DetectionResult                                        *)

\* The entries a map holds for a key, none if it lacks the key.
EntriesOf(map, k) == IF k \in DOMAIN map THEN map[k] ELSE << >>

\* The architectures of the corpus.
CorpusArchs == { corpus[i] : i \in 1..Len(corpus) }

\* The two orientations of one order hold the same triples (architecture,
\* range, divergence), each pair of an architecture and a range once.
Agree(arch_to_range, range_to_arch) ==
    /\ DOMAIN arch_to_range \subseteq CorpusArchs
    /\ DOMAIN range_to_arch \subseteq ProcessedRanges
    /\ \A a \in DOMAIN arch_to_range : \A i \in 1..Len(arch_to_range[a]) :
          LET e == arch_to_range[a][i]
          IN  \E j \in 1..Len(EntriesOf(range_to_arch, e.range)) :
                  range_to_arch[e.range][j] = [arch |-> a, div |-> e.div]
    /\ \A r \in DOMAIN range_to_arch : \A j \in 1..Len(range_to_arch[r]) :
          LET e == range_to_arch[r][j]
          IN  \E i \in 1..Len(EntriesOf(arch_to_range, e.arch)) :
                  arch_to_range[e.arch][i] = [range |-> r, div |-> e.div]
    /\ \A a \in CorpusArchs : \A r \in ProcessedRanges :
          /\ Cardinality({ i \in 1..Len(EntriesOf(arch_to_range, a)) :
                              arch_to_range[a][i].range = r }) = 1
          /\ Cardinality({ j \in 1..Len(EntriesOf(range_to_arch, r)) :
                              range_to_arch[r][j].arch = a }) = 1
    /\ \A a \in CorpusArchs :
          Len(EntriesOf(arch_to_range, a)) = Cardinality(ProcessedRanges)
    /\ \A r \in ProcessedRanges :
          Len(EntriesOf(range_to_arch, r)) = Len(corpus)

\* C20: in the DetectionResult built from W windows and A architectures of
\* different names, for each order (range, d) is in arch_to_range[a]
\* exactly if (a, d) is in range_to_arch[range], each pair of a range and
\* an architecture occurs once, so that each architecture has W entries and
\* each range A entries, and the maps of the two orders have the same keys.
C20_Orientations ==
    pc = "detected" =>
        /\ Agree(res_ex.kl_bg_arch_to_range, res_ex.kl_bg_range_to_arch)
        /\ Agree(res_ex.kl_tg_arch_to_range, res_ex.kl_tg_range_to_arch)
        /\ DOMAIN res_ex.kl_bg_arch_to_range = DOMAIN res_ex.kl_tg_arch_to_range
        /\ DOMAIN res_ex.kl_bg_range_to_arch = DOMAIN res_ex.kl_tg_range_to_arch

\* C20 witness: three windows and three architectures, and a window whose
\* nearest architecture by bigrams is not the nearest by trigrams, so that
\* the zipped pairs name different architectures.
C20_Witness ==
    /\ pc = "detected"
    /\ Cardinality(ProcessedRanges) = 3
    /\ Len(corpus) = 3
    /\ \E s \in DOMAIN results :
          results[s].kl.kl_bg[1].arch # results[s].kl.kl_tg[1].arch

-----------------------------------------------------------------------------
(* Claims about the offsets of the consolidated output                     *)

\* C21: in the consolidated output over the ranges of detect_code with the
\* half-window w, the starts of the entries are strictly increasing
\* multiples of w, and two consecutive entries share at most w bytes.
C21_OutputOffsets ==
    pc = "printed" =>
        LET out == output.range_results
            w == StatedHalfWindow(len)
        IN  /\ \A k \in 1..Len(out) : out[k][1].start % w = 0
            /\ \A k \in 1..(Len(out) - 1) :
                  /\ out[k][1].start < out[k + 1][1].start
                  /\ Overlap(out[k][1], out[k + 1][1]) <= w

\* C21 witness: three entries; the first two are adjacent runs and share w
\* bytes, the last two are separated by a run labelled None and share
\* nothing.
C21_Witness ==
    /\ pc = "printed"
    /\ Len(output.range_results) = 3
    /\ Overlap(output.range_results[1][1], output.range_results[2][1])
          = StatedHalfWindow(len)
    /\ Overlap(output.range_results[2][1], output.range_results[3][1]) = 0
    /\ output.range_results[2][1].start > 0

-----------------------------------------------------------------------------
(* The window planner on files beyond the model's integers                 *)
(*                                                                         *)
(* On a 64-bit target usize has 64 bits.  A length of 2^31 bytes or more   *)
(* is kept as two limbs, the record [hi |-> h, lo |-> l] for the value     *)
(* h * 2^24 + l with 0 <= l < 2^24.  The lengths of this section are below *)
(* 2^48, where l as f64 is exact and floor(log2 l) is its integer part.    *)

\* The weight of the high limb, 2^24.
Limb == \H1000000

Wide(x) == [hi |-> x \div Limb, lo |-> x % Limb]

\* (l as f64).log2() as usize
log2_floor_usize(l) ==
    IF l.hi = 0 THEN log2_floor(l.lo) ELSE 24 + log2_floor(l.hi)

\* l / d for a divisor d below 2^19: long division, digit by digit, the two
\* low digits having twelve bits each.
div_usize(l, d) ==
    LET t1 == (l.hi % d) * \H1000 + (l.lo \div \H1000)
        t2 == (t1 % d) * \H1000 + (l.lo % \H1000)
    IN  [hi |-> l.hi \div d, lo |-> (t1 \div d) * \H1000 + (t2 \div d)]

\* x & 0xFFFFF000 on 64 bits: the literal is the usize 0x0000_0000_FFFF_F000,
\* so the mask keeps bits 12..31 and clears bits 0..11 and 32..63.  Bits
\* 24..31 are the low eight bits of the high limb.
and_FFFFF000_usize(x) == [hi |-> x.hi % \H100, lo |-> x.lo - (x.lo % \H1000)]

\* let window = match file_data.len() { .. }, the length being wide.
window_of_usize_len(l) ==
    IF l.hi = 0 \/ (l.hi = 1 /\ l.lo = 0)
    THEN Wide(window_of_len(l.hi * Limb + l.lo))
    ELSE and_FFFFF000_usize(div_usize(l, 170 * log2_floor_usize(l)))

\* detect_code chooses the half-window of a big file.
ChooseWindowOfBigFile ==
    /\ pc = "detect_code_big"
    /\ window' = window_of_usize_len(len)
    /\ pc' = "windows_big"
    /\ UNCHANGED <<heur_vars, input_vars, stats_vars, run, results, res_ex, processed,
                   output, first>>
-----------------------------------------------------------------------------
(* The window planner on big files: SpecBigWindow                          *)

\* The high limbs are taken around the powers of two up to 2^MaxBigExp
\* (lengths below 2^47) and around 170 * 44 * 2^8, where the quotient
\* l / (170 * 44) reaches 2^32.
MaxBigExp == 22

BigHis ==
    { 2^k + d : k \in 0..MaxBigExp, d \in { 0 - 1, 0, 1 } }
        \cup { 170 * 44 * \H100 + d : d \in { 0 - 1, 0, 1 } }

BigLos == { 0, 1, \HFFF, \H1000, \HFFFFFF }

\* The lengths above 0x1000000.
BigLens ==
    { l \in [hi : BigHis, lo : BigLos] : l.hi >= 2 \/ (l.hi = 1 /\ l.lo >= 1) }

InitBigWindow ==
    /\ pc = "detect_code_big"
    /\ len \in BigLens
    /\ corpus = << >> /\ debug = FALSE /\ content = << >>
    /\ run = 1 /\ window = "unset" /\ results = << >> /\ res_ex = "unset"
    /\ processed = "unset" /\ output = "unset" /\ first = "unset"
    /\ HeurIdle
    /\ StatsIdle

SpecBigWindow == InitBigWindow /\ [][ChooseWindowOfBigFile]_vars

\* C22 as stated: for every file length L > 0x1000000 the half-window of
\* the big-file formula is a multiple of 0x1000 and at least 0x1000, and at
\* L = 0x1000001 it is 0x1000, the half-window of the last tier.
C22_BigFileWindow ==
    pc = "windows_big" =>
        /\ window.lo % \H1000 = 0
        /\ window.hi > 0 \/ window.lo >= \H1000
        /\ len = [hi |-> 1, lo |-> 1] => window = [hi |-> 0, lo |-> \H1000]

=============================================================================
